---------------------------- MODULE Spec2Model ----------------------------
(***************************************************************************)
(* The Queens solver of the browser extension (src/content.js): the board  *)
(* built by buildGame, the search state created by solve, and the          *)
(* recursive search solveBacktracking with its candidate generation,       *)
(* forward check and candidate ordering, unfolded into a state machine     *)
(* whose stack holds one frame per active for-loop of solveBacktracking.   *)
(* Then the packaged extension (src/unnamed): the background script, which *)
(* loads the WASM solver and answers "solve" messages, and the content     *)
(* script it injects, which sends the board and clicks the cells of the    *)
(* answer.                                                                 *)
(***************************************************************************)
EXTENDS Integers, Sequences, FiniteSets, TLC

\* Largest number of rows and of columns of the boards explored.
MaxDim == 4

\* Largest number of child elements of the grids given to buildGame.
MaxChildren == 2

\* Largest number of clicks on the toolbar button.
MaxClicks == 2

\* Largest number of entries of the array the WASM solver answers with.
MaxAnswer == 1

VARIABLES
  game,            \* the board passed to solve: rows, cols, colors, idxToColor
  fwdCheck,        \* whether getCandidates runs its forward-check step
  rowUsed,         \* solve: rowUsed
  colUsed,         \* solve: colUsed
  colorUsed,       \* solve: colorUsed
  adjacentToUsed,  \* solve: adjacentToUsed
  solution,        \* solve: solution
  stack,           \* active for-loops of solveBacktracking, outermost first:
                   \* the candidates, the position in them, and (history)
                   \* the search state before the placement under trial
  pc,              \* "call", "loop", "ret" or "done"
  ret,             \* value returned by the solveBacktracking call that just ended
  result,          \* the Set returned by solve
  earlier,         \* the calls of solve completed before the current one
  grid,            \* buildGame: the grid element it reads
  script,          \* buildGame: which of the two scripts' buildGame runs
  bpc,             \* buildGame: "idle", "start", "loop", "returned" or "thrown"
  child,           \* buildGame: position of the for-loop in grid.children
  built,           \* buildGame: rows, cols, colors, idxToColor as built so far
  thrown,          \* buildGame: the exception that ended it, or "none"
  wasmReady,       \* background script: whether init() has resolved
  runs             \* the injected content scripts, in the order of the clicks

solveVars == <<game, fwdCheck, rowUsed, colUsed, colorUsed, adjacentToUsed,
               solution, stack, pc, ret, result, earlier>>

buildVars == <<grid, script, bpc, child, built, thrown>>

extVars == <<wasmReady, runs>>

vars == <<solveVars, buildVars, extVars>>

-----------------------------------------------------------------------------
(* JavaScript values of the tallies: a number, NaN or undefined.            *)

Num(n) == [t |-> "num", v |-> n]
NaN == [t |-> "nan", v |-> 0]
Undefined == [t |-> "undefined", v |-> 0]

\* x === 0
IsZero(x) == x.t = "num" /\ x.v = 0

Min2(a, b) == IF a < b THEN a ELSE b

\* Math.min of three values: NaN as soon as one is not a number.
MathMin(a, b, c) ==
  IF a.t = "num" /\ b.t = "num" /\ c.t = "num"
    THEN Num(Min2(a.v, Min2(b.v, c.v)))
    ELSE NaN

-----------------------------------------------------------------------------
(* Boards.                                                                  *)

Rows(g) == 0 .. (g.rows - 1)
Cols(g) == 0 .. (g.cols - 1)
Cells(g) == 0 .. (g.rows * g.cols - 1)

\* idx = row * game.cols + col
CellIdx(g, row, col) == row * g.cols + col
RowOf(g, idx) == idx \div g.cols
ColOf(g, idx) == idx % g.cols

\* buildGame on a grid that holds every cell: colors are the colours met.
MakeGame(rows, cols, idxToColor) ==
  [rows |-> rows, cols |-> cols,
   colors |-> {idxToColor[i] : i \in DOMAIN idxToColor},
   idxToColor |-> idxToColor]

-----------------------------------------------------------------------------
(* Helpers of the search.                                                   *)

\* getAdjacents with the offset [1, 1] missing from its list.
getAdjacentsThree(g, row, col) ==
  { CellIdx(g, row + d[1], col + d[2]) :
      d \in { e \in {<<-1, -1>>, <<-1, 1>>, <<1, -1>>} :
                /\ row + e[1] >= 0
                /\ row + e[1] < g.rows
                /\ col + e[2] >= 0
                /\ col + e[2] < g.cols } }

\* getAdjacents: the diagonal neighbours of (row, col) that lie on the board.
getAdjacents(g, row, col) ==
  { CellIdx(g, row + d[1], col + d[2]) :
      d \in { e \in {<<-1, -1>>, <<-1, 1>>, <<1, -1>>, <<1, 1>>} :
                /\ row + e[1] >= 0
                /\ row + e[1] < g.rows
                /\ col + e[2] >= 0
                /\ col + e[2] < g.cols } }

\* solved with `some` written for `every`.
solvedSome(rUsed, cUsed, kUsed) ==
  /\ \E r \in DOMAIN rUsed : rUsed[r]
  /\ \E c \in DOMAIN cUsed : cUsed[c]
  /\ \E k \in DOMAIN kUsed : kUsed[k]

\* solved: every row, every column and every key of colorUsed is used.
solved(rUsed, cUsed, kUsed) ==
  /\ \A r \in DOMAIN rUsed : rUsed[r]
  /\ \A c \in DOMAIN cUsed : cUsed[c]
  /\ \A k \in DOMAIN kUsed : kUsed[k]

\* colorUsed[color] as a condition: a missing key reads undefined, which is falsy.
ColorIsUsed(kUsed, color) == color \in DOMAIN kUsed /\ kUsed[color]

\* The test of the inner loop without the adjacency counter.
EligibleNoAdjacency(g, rUsed, cUsed, kUsed, adj, row, col) ==
  /\ ~rUsed[row]
  /\ ~cUsed[col]
  /\ ~ColorIsUsed(kUsed, g.idxToColor[CellIdx(g, row, col)])

\* The test of getCandidates' inner loop on one cell.
Eligible(g, rUsed, cUsed, kUsed, adj, row, col) ==
  /\ ~rUsed[row]
  /\ ~cUsed[col]
  /\ ~ColorIsUsed(kUsed, g.idxToColor[CellIdx(g, row, col)])
  /\ adj[CellIdx(g, row, col)] = 0

\* All cells as [row, col] pairs in the order of the two nested loops.
AllCells(g) ==
  [i \in 1 .. (g.rows * g.cols) |-> <<RowOf(g, i - 1), ColOf(g, i - 1)>>]

\* candidates, before sorting: the eligible cells in row-major order.
RawCandidates(g, rUsed, cUsed, kUsed, adj) ==
  SelectSeq(AllCells(g),
            LAMBDA rc : Eligible(g, rUsed, cUsed, kUsed, adj, rc[1], rc[2]))

\* rowToSpots after the loops.
RowToSpots(g, cands) ==
  [row \in Rows(g) |-> Cardinality({i \in DOMAIN cands : cands[i][1] = row})]

\* colToSpots after the loops.
ColToSpots(g, cands) ==
  [col \in Cols(g) |-> Cardinality({i \in DOMAIN cands : cands[i][2] = col})]

\* The colour identifiers the search can read a tally for.
ColorKeys(g, kUsed) ==
  g.colors \cup {g.idxToColor[i] : i \in DOMAIN g.idxToColor} \cup DOMAIN kUsed

\* colorToSpots after the loops. It is Array(game.colors.length).fill(0) indexed
\* by the colour identifier itself: a slot 0 <= color < length counts, any other
\* identifier reads undefined and becomes NaN at its first increment.
ColorToSpots(g, kUsed, cands) ==
  [color \in ColorKeys(g, kUsed) |->
     LET n == Cardinality({i \in DOMAIN cands :
                 g.idxToColor[CellIdx(g, cands[i][1], cands[i][2])] = color})
     IN IF color \in 0 .. (Cardinality(g.colors) - 1)
          THEN Num(n)
          ELSE IF n = 0 THEN Undefined ELSE NaN]

\* forwardCheckFailure with the `!used` test of the rows left out.
forwardCheckFailureIgnoresUsed(rUsed, cUsed, kUsed, rowToSpots, colToSpots, colorToSpots) ==
  \/ \E row \in DOMAIN rUsed : rowToSpots[row] = 0
  \/ \E col \in DOMAIN cUsed : ~cUsed[col] /\ colToSpots[col] = 0
  \/ \E color \in DOMAIN kUsed : ~kUsed[color] /\ IsZero(colorToSpots[color])

\* forwardCheckFailure with `<= 1` written for `=== 0` on the rows.
forwardCheckFailureOffByOne(rUsed, cUsed, kUsed, rowToSpots, colToSpots, colorToSpots) ==
  \/ \E row \in DOMAIN rUsed : ~rUsed[row] /\ rowToSpots[row] <= 1
  \/ \E col \in DOMAIN cUsed : ~cUsed[col] /\ colToSpots[col] = 0
  \/ \E color \in DOMAIN kUsed : ~kUsed[color] /\ IsZero(colorToSpots[color])

\* forwardCheckFailure with `!colorToSpots[color]` written for `=== 0`.
forwardCheckFailureFalsy(rUsed, cUsed, kUsed, rowToSpots, colToSpots, colorToSpots) ==
  \/ \E row \in DOMAIN rUsed : ~rUsed[row] /\ rowToSpots[row] = 0
  \/ \E col \in DOMAIN cUsed : ~cUsed[col] /\ colToSpots[col] = 0
  \/ \E color \in DOMAIN kUsed :
        ~kUsed[color] /\ (colorToSpots[color].t # "num" \/ colorToSpots[color].v = 0)

\* forwardCheckFailure: some unused row, column or colour has no spot left.
forwardCheckFailure(rUsed, cUsed, kUsed, rowToSpots, colToSpots, colorToSpots) ==
  \/ \E row \in DOMAIN rUsed : ~rUsed[row] /\ rowToSpots[row] = 0
  \/ \E col \in DOMAIN cUsed : ~cUsed[col] /\ colToSpots[col] = 0
  \/ \E color \in DOMAIN kUsed : ~kUsed[color] /\ IsZero(colorToSpots[color])

\* key([row, col]) of getCandidates.
key(g, rowToSpots, colToSpots, colorToSpots, rc) ==
  MathMin(Num(rowToSpots[rc[1]]), Num(colToSpots[rc[2]]),
          colorToSpots[g.idxToColor[CellIdx(g, rc[1], rc[2])]])

\* The comparator (a, b) => key(a) - key(b) as sort reads it: NaN counts as 0.
Compare(ka, kb) == IF ka.t = "num" /\ kb.t = "num" THEN ka.v - kb.v ELSE 0

-----------------------------------------------------------------------------
(* candidates.sort(comparator), as the extension's engine (V8) runs it:     *)
(* TimSort. The array is cut into runs; a run shorter than the minimum run  *)
(* length is extended by binary insertion; runs are merged pairwise, with   *)
(* galloping. An array of fewer than 64 elements is a single run, so for it *)
(* the sort is: find the leading run (reversed when strictly descending),   *)
(* then insert every later element by binary search. With a consistent      *)
(* comparator the result is the stable sort by key; keys that are NaN       *)
(* compare equal to everything, and the result then depends on the path     *)
(* taken. Positions count from 0 as in the engine; position p of the work   *)
(* array w is w[p + 1].                                                     *)

kMinGallopWins == 7

Max2(a, b) == IF a > b THEN a ELSE b

At(w, p) == w[p + 1]

Put(w, p, x) == [w EXCEPT ![p + 1] = x]

\* The comparator called on two elements; k maps each element to its key.
Order(k, x, y) == Compare(k[x], k[y])

\* Copy(source, srcPos, target, dstPos, length): the target after the copy;
\* the source is read as it was before the copy, also when it is the target.
Copy(source, srcPos, target, dstPos, length) ==
  SubSeq(target, 1, dstPos) \o SubSeq(source, srcPos + 1, srcPos + length)
    \o SubSeq(target, dstPos + length + 1, Len(target))

Reverse(a) == [i \in 1 .. Len(a) |-> a[Len(a) + 1 - i]]

\* ReverseRange: positions from .. to - 1 in reverse order.
ReverseRange(w, from, to) ==
  SubSeq(w, 1, from) \o Reverse(SubSeq(w, from + 1, to))
    \o SubSeq(w, to + 1, Len(w))

RECURSIVE MinRunLoop(_, _)
MinRunLoop(n, r) ==
  IF n >= 64 THEN MinRunLoop(n \div 2, IF n % 2 = 1 THEN 1 ELSE r) ELSE n + r

\* ComputeMinRunLength: n itself below 64, otherwise a length in 32 .. 64.
ComputeMinRunLength(nArg) == MinRunLoop(nArg, 0)

\* The length of the run that starts at low: the run ends before the first
\* position idx whose element breaks the order with the one before it.
CountRun(w, k, descending, low, high) ==
  LET breaks == {idx \in (low + 2) .. (high - 1) :
                   LET order == Order(k, At(w, idx), At(w, idx - 1))
                   IN (descending /\ order >= 0) \/ (~descending /\ order < 0)}
  IN IF breaks = {} THEN high - low
     ELSE (CHOOSE idx \in breaks : \A other \in breaks : idx <= other) - low

\* CountAndMakeRun: the run starting at lowArg, made ascending.
CountAndMakeRun(w, k, lowArg, high) ==
  IF lowArg + 1 = high THEN [work |-> w, length |-> 1]
  ELSE LET descending == Order(k, At(w, lowArg + 1), At(w, lowArg)) < 0
           runLength == CountRun(w, k, descending, lowArg, high)
       IN [work |-> IF descending
                      THEN ReverseRange(w, lowArg, lowArg + runLength)
                      ELSE w,
           length |-> runLength]

RECURSIVE BinarySearch(_, _, _, _, _)
\* Where pivot goes among positions left .. right - 1.
BinarySearch(a, k, pivot, left, right) ==
  IF left >= right THEN left
  ELSE LET mid == left + ((right - left) \div 2)
       IN IF Compare(k[pivot], k[a[mid + 1]]) < 0
            THEN BinarySearch(a, k, pivot, left, mid)
            ELSE BinarySearch(a, k, pivot, mid + 1, right)

\* One turn of the insertion loop, on the loop's state s (the work array and
\* start): positions low .. start - 1 are sorted, the element at start is
\* inserted among them, and start moves on. No turn once start is high.
InsertTurn(s, k, low, high) ==
  IF s.start >= high THEN s
  ELSE LET pivot == At(s.work, s.start)
           left == BinarySearch(s.work, k, pivot, low, s.start)
       IN [work |-> SubSeq(s.work, 1, left) \o <<pivot>>
                      \o SubSeq(s.work, left + 1, s.start)
                      \o SubSeq(s.work, s.start + 2, Len(s.work)),
           start |-> s.start + 1]

RECURSIVE InsertLoop(_, _, _, _, _)
\* The insertion loop: turns turns, the first half and then the second.
InsertLoop(s, k, low, high, turns) ==
  IF turns <= 1 THEN InsertTurn(s, k, low, high)
  ELSE LET half == InsertLoop(s, k, low, high, turns \div 2)
       IN IF half.start >= high THEN half
          ELSE InsertLoop(half, k, low, high, turns - (turns \div 2))

\* BinaryInsertionSort: sorts positions low .. high - 1, of which
\* low .. startArg - 1 are sorted already.
BinaryInsertionSort(w, k, low, startArg, high) ==
  LET start == IF low = startArg THEN startArg + 1 ELSE startArg
  IN InsertLoop([work |-> w, start |-> start], k, low, high, high - start).work

RECURSIVE GallopLoop(_, _, _, _, _, _, _, _, _)
\* The doubling loop of GallopLeft and GallopRight: at is base + hint, sign
\* the direction, keyFirst says the key is the comparator's first argument,
\* stopNegative says the loop breaks on order < 0 (else on order >= 0).
GallopLoop(array, k, gkey, at, sign, keyFirst, stopNegative, maxOfs, ofs) ==
  IF ofs.offset >= maxOfs THEN ofs
  ELSE LET element == At(array, at + sign * ofs.offset)
           order == IF keyFirst THEN Order(k, gkey, element)
                                ELSE Order(k, element, gkey)
       IN IF (stopNegative /\ order < 0) \/ (~stopNegative /\ order >= 0)
            THEN ofs
            ELSE GallopLoop(array, k, gkey, at, sign, keyFirst, stopNegative,
                            maxOfs,
                            [last |-> ofs.offset, offset |-> 2 * ofs.offset + 1])

RECURSIVE GallopSearch(_, _, _, _, _, _, _)
\* The binary search that ends GallopLeft and GallopRight.
GallopSearch(array, k, gkey, base, keyFirst, lastOfs, offset) ==
  IF lastOfs >= offset THEN offset
  ELSE LET m == lastOfs + ((offset - lastOfs) \div 2)
           element == At(array, base + m)
       IN IF keyFirst
            THEN IF Order(k, gkey, element) < 0
                   THEN GallopSearch(array, k, gkey, base, keyFirst, lastOfs, m)
                   ELSE GallopSearch(array, k, gkey, base, keyFirst, m + 1, offset)
            ELSE IF Order(k, element, gkey) < 0
                   THEN GallopSearch(array, k, gkey, base, keyFirst, m + 1, offset)
                   ELSE GallopSearch(array, k, gkey, base, keyFirst, lastOfs, m)

\* GallopLeft: where gkey goes in the sorted range base .. base + length - 1,
\* left of any equal elements, searching outwards from hint.
GallopLeft(array, k, gkey, base, length, hint) ==
  LET right == Order(k, At(array, base + hint), gkey) < 0
      maxOfs == IF right THEN length - hint ELSE hint + 1
      raw == GallopLoop(array, k, gkey, base + hint, IF right THEN 1 ELSE -1,
                        FALSE, ~right, maxOfs, [last |-> 0, offset |-> 1])
      offset == Min2(raw.offset, maxOfs)
      lastOfs == IF right THEN raw.last + hint ELSE hint - offset
      upper == IF right THEN offset + hint ELSE hint - raw.last
  IN GallopSearch(array, k, gkey, base, FALSE, lastOfs + 1, upper)

\* GallopRight: the same, right of any equal elements.
GallopRight(array, k, gkey, base, length, hint) ==
  LET left == Order(k, gkey, At(array, base + hint)) < 0
      maxOfs == IF left THEN hint + 1 ELSE length - hint
      raw == GallopLoop(array, k, gkey, base + hint, IF left THEN -1 ELSE 1,
                        TRUE, ~left, maxOfs, [last |-> 0, offset |-> 1])
      offset == Min2(raw.offset, maxOfs)
      lastOfs == IF left THEN hint - offset ELSE raw.last + hint
      upper == IF left THEN hint - raw.last ELSE offset + hint
  IN GallopSearch(array, k, gkey, base, TRUE, lastOfs + 1, upper)

(* A merge in progress is a record m: work and temp the two arrays, dest,   *)
(* cursorTemp and cursor the three positions (cursor is the one in work),   *)
(* lengthA and lengthB what is left of the two runs, minGallop the local    *)
(* threshold, stored the one kept in the sort state, nofWinsA and nofWinsB  *)
(* the winning streaks, loop the inner loop the merge is in ("linear" or    *)
(* "gallop"), exit the label the merge has jumped to ("none" while it is    *)
(* looping). Every turn of either loop moves at least one element, so a     *)
(* merge of lengthA + lengthB elements is over after that many turns. A     *)
(* step that follows a jump to a label changes nothing.                     *)

\* The galloping loop starts a turn: minGallop = max(1, minGallop - 1), stored.
GallopTurnBegins(m) ==
  [m EXCEPT !.minGallop = Max2(1, @ - 1), !.stored = Max2(1, m.minGallop - 1)]

\* Where a turn of the linear loop leaves the merge: in the galloping loop
\* (after ++minGallop) once a run has won minGallop times in a row.
AfterLinearTurn(m) ==
  IF m.exit = "none" /\ (m.nofWinsA >= m.minGallop \/ m.nofWinsB >= m.minGallop)
    THEN [m EXCEPT !.loop = "gallop", !.minGallop = @ + 1]
    ELSE m

\* Where a turn of the galloping loop leaves the merge: back in the linear
\* loop (after ++minGallop, stored in the sort state, and with the streaks
\* reset) once neither run has won kMinGallopWins times.
AfterGallopTurn(m) ==
  IF m.exit # "none" \/ m.nofWinsA >= kMinGallopWins
       \/ m.nofWinsB >= kMinGallopWins
    THEN m
    ELSE [m EXCEPT !.loop = "linear", !.minGallop = @ + 1,
                   !.stored = m.minGallop + 1,
                   !.nofWinsA = 0, !.nofWinsB = 0]

\* MergeLow, one turn of the one-element-at-a-time loop: the smaller head
\* is moved to dest (run A's on a tie).
MergeLowTake(m, k) ==
  IF Order(k, At(m.work, m.cursor), At(m.temp, m.cursorTemp)) < 0
    THEN [m EXCEPT !.work = Put(@, m.dest, At(m.work, m.cursor)),
                   !.dest = @ + 1, !.cursor = @ + 1,
                   !.nofWinsB = @ + 1, !.lengthB = @ - 1, !.nofWinsA = 0,
                   !.exit = IF m.lengthB = 1 THEN "Succeed" ELSE @]
    ELSE [m EXCEPT !.work = Put(@, m.dest, At(m.temp, m.cursorTemp)),
                   !.dest = @ + 1, !.cursorTemp = @ + 1,
                   !.nofWinsA = @ + 1, !.lengthA = @ - 1, !.nofWinsB = 0,
                   !.exit = IF m.lengthA = 2 THEN "CopyRest" ELSE @]

\* MergeLow, galloping: the nofWinsA elements of run A that go before the
\* head of run B are copied from temp.
MergeLowTakeRunA(m, nA) ==
  IF nA > 0
    THEN [m EXCEPT !.work = Copy(m.temp, m.cursorTemp, @, m.dest, nA),
                   !.dest = @ + nA, !.cursorTemp = @ + nA,
                   !.lengthA = @ - nA, !.nofWinsA = nA,
                   !.exit = IF m.lengthA - nA = 1 THEN "CopyRest"
                            ELSE IF m.lengthA - nA = 0 THEN "Succeed" ELSE @]
    ELSE [m EXCEPT !.nofWinsA = 0]

\* MergeLow, galloping: then the head of run B is moved.
MergeLowTakeOneB(m) ==
  IF m.exit # "none" THEN m
  ELSE [m EXCEPT !.work = Put(@, m.dest, At(m.work, m.cursor)),
                 !.dest = @ + 1, !.cursor = @ + 1, !.lengthB = @ - 1,
                 !.exit = IF m.lengthB = 1 THEN "Succeed" ELSE @]

\* MergeLow, galloping: the nofWinsB elements of run B that go before the
\* head of run A are copied down.
MergeLowTakeRunB(m, nB) ==
  IF nB > 0
    THEN [m EXCEPT !.work = Copy(m.work, m.cursor, @, m.dest, nB),
                   !.dest = @ + nB, !.cursor = @ + nB,
                   !.lengthB = @ - nB, !.nofWinsB = nB,
                   !.exit = IF m.lengthB - nB = 0 THEN "Succeed" ELSE @]
    ELSE [m EXCEPT !.nofWinsB = 0]

\* MergeLow, galloping: then the head of run A is moved.
MergeLowTakeOneA(m) ==
  IF m.exit # "none" THEN m
  ELSE [m EXCEPT !.work = Put(@, m.dest, At(m.temp, m.cursorTemp)),
                 !.dest = @ + 1, !.cursorTemp = @ + 1, !.lengthA = @ - 1,
                 !.exit = IF m.lengthA = 2 THEN "CopyRest" ELSE @]

MergeLowGallopA(m, k) ==
  MergeLowTakeRunA(m, GallopRight(m.temp, k, At(m.work, m.cursor),
                                  m.cursorTemp, m.lengthA, 0))

MergeLowGallopB(m, k) ==
  IF m.exit # "none" THEN m
  ELSE MergeLowTakeRunB(m, GallopLeft(m.work, k, At(m.temp, m.cursorTemp),
                                      m.cursor, m.lengthB, 0))

\* MergeLow, one turn of the galloping loop.
MergeLowGallop(m, k) ==
  AfterGallopTurn(
    MergeLowTakeOneA(
      MergeLowGallopB(
        MergeLowTakeOneB(MergeLowGallopA(GallopTurnBegins(m), k)), k)))

\* MergeLow, one turn of whichever loop the merge is in; none once it has
\* jumped to a label.
MergeLowTurn(m, k) ==
  IF m.exit # "none" THEN m
  ELSE IF m.loop = "linear" THEN AfterLinearTurn(MergeLowTake(m, k))
  ELSE MergeLowGallop(m, k)

RECURSIVE MergeLowLoop(_, _, _)
\* MergeLow, the loops: turns turns, the first half and then the second.
MergeLowLoop(m, k, turns) ==
  IF turns <= 1 THEN MergeLowTurn(m, k)
  ELSE LET half == MergeLowLoop(m, k, turns \div 2)
       IN IF half.exit # "none" THEN half
          ELSE MergeLowLoop(half, k, turns - (turns \div 2))

\* MergeLow begins: run A is copied to temp and the head of run B moved.
MergeLowBegins(w, minGallop, baseA, lengthAArg, baseB, lengthBArg) ==
  [work |-> Put(w, baseA, At(w, baseB)),
   temp |-> SubSeq(w, baseA + 1, baseA + lengthAArg),
   dest |-> baseA + 1, cursorTemp |-> 0, cursor |-> baseB + 1, baseA |-> baseA,
   lengthA |-> lengthAArg, lengthB |-> lengthBArg - 1,
   minGallop |-> minGallop, stored |-> minGallop,
   nofWinsA |-> 0, nofWinsB |-> 0, loop |-> "linear",
   exit |-> IF lengthBArg = 1 THEN "Succeed"
            ELSE IF lengthAArg = 1 THEN "CopyRest" ELSE "none"]

\* MergeLow ends, at the label Succeed or CopyB.
MergeLowEnds(s, m) ==
  [s EXCEPT !.minGallop = m.stored,
            !.work = IF m.exit = "Succeed"
                       THEN IF m.lengthA > 0
                              THEN Copy(m.temp, m.cursorTemp, m.work, m.dest,
                                        m.lengthA)
                              ELSE m.work
                       ELSE Put(Copy(m.work, m.cursor, m.work, m.dest, m.lengthB),
                                m.dest + m.lengthB, At(m.temp, m.cursorTemp))]

\* MergeLow: merges run A (copied to temp) with run B from the left;
\* lengthA <= lengthB. s is the sort state; the result is the new sort state.
MergeLow(s, k, baseA, lengthAArg, baseB, lengthBArg) ==
  MergeLowEnds(s, MergeLowLoop(MergeLowBegins(s.work, s.minGallop, baseA,
                                              lengthAArg, baseB, lengthBArg),
                               k, lengthAArg + lengthBArg))

\* MergeHigh, one turn of the one-element-at-a-time loop: the larger tail
\* is moved to dest (run B's on a tie).
MergeHighTake(m, k) ==
  IF Order(k, At(m.temp, m.cursorTemp), At(m.work, m.cursor)) < 0
    THEN [m EXCEPT !.work = Put(@, m.dest, At(m.work, m.cursor)),
                   !.dest = @ - 1, !.cursor = @ - 1,
                   !.nofWinsA = @ + 1, !.lengthA = @ - 1, !.nofWinsB = 0,
                   !.exit = IF m.lengthA = 1 THEN "Succeed" ELSE @]
    ELSE [m EXCEPT !.work = Put(@, m.dest, At(m.temp, m.cursorTemp)),
                   !.dest = @ - 1, !.cursorTemp = @ - 1,
                   !.nofWinsB = @ + 1, !.lengthB = @ - 1, !.nofWinsA = 0,
                   !.exit = IF m.lengthB = 2 THEN "CopyRest" ELSE @]

\* MergeHigh, galloping: the nofWinsA elements of run A that go after the
\* tail of run B are copied up.
MergeHighTakeRunA(m, nA) ==
  IF nA > 0
    THEN [m EXCEPT !.work = Copy(@, m.cursor - nA + 1, @, m.dest - nA + 1, nA),
                   !.dest = @ - nA, !.cursor = @ - nA,
                   !.lengthA = @ - nA, !.nofWinsA = nA,
                   !.exit = IF m.lengthA - nA = 0 THEN "Succeed" ELSE @]
    ELSE [m EXCEPT !.nofWinsA = 0]

\* MergeHigh, galloping: then the tail of run B is moved.
MergeHighTakeOneB(m) ==
  IF m.exit # "none" THEN m
  ELSE [m EXCEPT !.work = Put(@, m.dest, At(m.temp, m.cursorTemp)),
                 !.dest = @ - 1, !.cursorTemp = @ - 1, !.lengthB = @ - 1,
                 !.exit = IF m.lengthB = 2 THEN "CopyRest" ELSE @]

\* MergeHigh, galloping: the nofWinsB elements of run B that go after the
\* tail of run A are copied from temp.
MergeHighTakeRunB(m, nB) ==
  IF nB > 0
    THEN [m EXCEPT !.work = Copy(m.temp, m.cursorTemp - nB + 1, @,
                                 m.dest - nB + 1, nB),
                   !.dest = @ - nB, !.cursorTemp = @ - nB,
                   !.lengthB = @ - nB, !.nofWinsB = nB,
                   !.exit = IF m.lengthB - nB = 1 THEN "CopyRest"
                            ELSE IF m.lengthB - nB = 0 THEN "Succeed" ELSE @]
    ELSE [m EXCEPT !.nofWinsB = 0]

\* MergeHigh, galloping: then the tail of run A is moved.
MergeHighTakeOneA(m) ==
  IF m.exit # "none" THEN m
  ELSE [m EXCEPT !.work = Put(@, m.dest, At(m.work, m.cursor)),
                 !.dest = @ - 1, !.cursor = @ - 1, !.lengthA = @ - 1,
                 !.exit = IF m.lengthA = 1 THEN "Succeed" ELSE @]

MergeHighGallopA(m, k) ==
  MergeHighTakeRunA(m, m.lengthA - GallopRight(m.work, k,
                                               At(m.temp, m.cursorTemp),
                                               m.baseA, m.lengthA,
                                               m.lengthA - 1))

MergeHighGallopB(m, k) ==
  IF m.exit # "none" THEN m
  ELSE MergeHighTakeRunB(m, m.lengthB - GallopLeft(m.temp, k,
                                                   At(m.work, m.cursor), 0,
                                                   m.lengthB, m.lengthB - 1))

\* MergeHigh, one turn of the galloping loop.
MergeHighGallop(m, k) ==
  AfterGallopTurn(
    MergeHighTakeOneA(
      MergeHighGallopB(
        MergeHighTakeOneB(MergeHighGallopA(GallopTurnBegins(m), k)), k)))

\* MergeHigh, one turn of whichever loop the merge is in.
MergeHighTurn(m, k) ==
  IF m.exit # "none" THEN m
  ELSE IF m.loop = "linear" THEN AfterLinearTurn(MergeHighTake(m, k))
  ELSE MergeHighGallop(m, k)

RECURSIVE MergeHighLoop(_, _, _)
\* MergeHigh, the loops: turns turns, the first half and then the second.
MergeHighLoop(m, k, turns) ==
  IF turns <= 1 THEN MergeHighTurn(m, k)
  ELSE LET half == MergeHighLoop(m, k, turns \div 2)
       IN IF half.exit # "none" THEN half
          ELSE MergeHighLoop(half, k, turns - (turns \div 2))

\* MergeHigh begins: run B is copied to temp and the tail of run A moved.
MergeHighBegins(w, minGallop, baseA, lengthAArg, baseB, lengthBArg) ==
  [work |-> Put(w, baseB + lengthBArg - 1, At(w, baseA + lengthAArg - 1)),
   temp |-> SubSeq(w, baseB + 1, baseB + lengthBArg),
   dest |-> baseB + lengthBArg - 2, cursorTemp |-> lengthBArg - 1,
   cursor |-> baseA + lengthAArg - 2, baseA |-> baseA,
   lengthA |-> lengthAArg - 1, lengthB |-> lengthBArg,
   minGallop |-> minGallop, stored |-> minGallop,
   nofWinsA |-> 0, nofWinsB |-> 0, loop |-> "linear",
   exit |-> IF lengthAArg = 1 THEN "Succeed"
            ELSE IF lengthBArg = 1 THEN "CopyRest" ELSE "none"]

\* MergeHigh ends, at the label Succeed or CopyA.
MergeHighEnds(s, m) ==
  [s EXCEPT !.minGallop = m.stored,
            !.work = IF m.exit = "Succeed"
                       THEN IF m.lengthB > 0
                              THEN Copy(m.temp, 0, m.work,
                                        m.dest - (m.lengthB - 1), m.lengthB)
                              ELSE m.work
                       ELSE Put(Copy(m.work, m.cursor - m.lengthA + 1, m.work,
                                     m.dest - m.lengthA + 1, m.lengthA),
                                m.dest - m.lengthA, At(m.temp, m.cursorTemp))]

\* MergeHigh: merges run A with run B (copied to temp) from the right;
\* lengthA >= lengthB.
MergeHigh(s, k, baseA, lengthAArg, baseB, lengthBArg) ==
  MergeHighEnds(s, MergeHighLoop(MergeHighBegins(s.work, s.minGallop, baseA,
                                                 lengthAArg, baseB, lengthBArg),
                                 k, lengthAArg + lengthBArg))

\* MergeAt, last part: the elements of run B already in place are left out
\* (lengthB is what remains) and the two remainders are merged.
MergeRemainders(s, k, baseA, lengthA, b, lengthB) ==
  IF lengthB = 0 THEN s
  ELSE IF lengthA <= lengthB
         THEN MergeLow(s, k, baseA, lengthA, b.base, lengthB)
         ELSE MergeHigh(s, k, baseA, lengthA, b.base, lengthB)

\* MergeAt, middle part: the first skip elements of run A are in place.
MergeFrom(s, k, a, b, skip) ==
  IF a.length - skip = 0 THEN s
  ELSE MergeRemainders(s, k, a.base + skip, a.length - skip, b,
                       GallopLeft(s.work, k, At(s.work, a.base + a.length - 1),
                                  b.base, b.length, b.length - 1))

\* MergeAt: merges the runs at stack positions i and i + 1 (from 0). The
\* sort state s holds work, the pending runs and minGallop; the two runs
\* become one on the stack before their elements are merged.
MergeAt(s, k, i) ==
  MergeFrom([s EXCEPT !.runs = SubSeq(@, 1, i)
                                 \o <<[base |-> s.runs[i + 1].base,
                                       length |-> s.runs[i + 1].length
                                                    + s.runs[i + 2].length]>>
                                 \o SubSeq(@, i + 3, Len(@))],
            k, s.runs[i + 1], s.runs[i + 2],
            GallopRight(s.work, k, At(s.work, s.runs[i + 2].base),
                        s.runs[i + 1].base, s.runs[i + 1].length, 0))

\* RunInvariantEstablished: the lengths of the pending runs, from the top of
\* the stack down, grow at least as fast as the Fibonacci numbers.
RunInvariantEstablished(pendingRuns, n) ==
  IF n < 2 THEN TRUE
  ELSE pendingRuns[n - 1].length
         > pendingRuns[n].length + pendingRuns[n + 1].length

RECURSIVE MergeCollapse(_, _)
MergeCollapse(s, k) ==
  IF Len(s.runs) <= 1 THEN s
  ELSE LET n == Len(s.runs) - 2
       IN IF ~RunInvariantEstablished(s.runs, n + 1)
               \/ ~RunInvariantEstablished(s.runs, n)
            THEN MergeCollapse(
                   MergeAt(s, k, IF s.runs[n].length < s.runs[n + 2].length
                                   THEN n - 1 ELSE n), k)
            ELSE IF s.runs[n + 1].length <= s.runs[n + 2].length
                   THEN MergeCollapse(MergeAt(s, k, n), k)
                   ELSE s

RECURSIVE MergeForceCollapse(_, _)
MergeForceCollapse(s, k) ==
  IF Len(s.runs) <= 1 THEN s
  ELSE LET n == Len(s.runs) - 2
       IN MergeForceCollapse(
            MergeAt(s, k, IF n > 0 /\ s.runs[n].length < s.runs[n + 2].length
                            THEN n - 1 ELSE n), k)

\* The run found at low, extended by binary insertion to the minimum run
\* length (or to the end of the array) when it is shorter.
ExtendedRun(run, k, low, remaining, minRunLength) ==
  IF run.length < minRunLength
    THEN [work |-> BinaryInsertionSort(run.work, k, low, low + run.length,
                                       low + Min2(minRunLength, remaining)),
          length |-> Min2(minRunLength, remaining)]
    ELSE run

\* PushRun, then MergeCollapse.
PushRun(s, k, low, run) ==
  MergeCollapse([s EXCEPT !.work = run.work,
                          !.runs = Append(@, [base |-> low,
                                              length |-> run.length])], k)

RECURSIVE ArrayTimSortImpl(_, _, _, _, _)
RECURSIVE ArrayTimSortTurn(_, _, _, _, _, _)

\* The main loop: take the next run, extend it to minRunLength, push it and
\* merge while the run invariant is broken.
ArrayTimSortImpl(s, k, low, remaining, minRunLength) ==
  IF remaining = 0 THEN s
  ELSE ArrayTimSortTurn(
         s, k, low, remaining, minRunLength,
         ExtendedRun(CountAndMakeRun(s.work, k, low, low + remaining),
                     k, low, remaining, minRunLength))

\* The end of a turn of the main loop: the run is pushed and the loop goes
\* on after it.
ArrayTimSortTurn(s, k, low, remaining, minRunLength, run) ==
  ArrayTimSortImpl(PushRun(s, k, low, run), k, low + run.length,
                   remaining - run.length, minRunLength)

\* candidates.sort((a, b) => key(a) - key(b)); k maps each candidate to its key.
ArraySort(a, k) ==
  IF Len(a) < 2 THEN a
  ELSE MergeForceCollapse(
         ArrayTimSortImpl([work |-> a, runs |-> <<>>, minGallop |-> kMinGallopWins],
                          k, 0, Len(a), ComputeMinRunLength(Len(a))), k).work

\* getCandidates: the list the for-loop of solveBacktracking runs over. fwd is
\* TRUE in the extension; FALSE is the search with lines 165-177 taken out.
getCandidates(g, fwd, rUsed, cUsed, kUsed, adj) ==
  LET cands == RawCandidates(g, rUsed, cUsed, kUsed, adj)
      rowToSpots == RowToSpots(g, cands)
      colToSpots == ColToSpots(g, cands)
      colorToSpots == ColorToSpots(g, kUsed, cands)
      k == [rc \in {cands[i] : i \in DOMAIN cands} |->
              key(g, rowToSpots, colToSpots, colorToSpots, rc)]
  IN IF fwd /\ forwardCheckFailure(rUsed, cUsed, kUsed,
                                   rowToSpots, colToSpots, colorToSpots)
       THEN <<>>
       ELSE ArraySort(cands, k)

-----------------------------------------------------------------------------
(* The boards explored: four region layouts on every rows x cols grid up to *)
(* MaxDim, and on the square grids each layout with any one cell recoloured *)
(* as well (a grid that is not square has no solution whatever its          *)
(* colouring).                                                               *)

Palette == 0 .. (MaxDim - 1)

Layouts == {"rows", "cols", "diagonal", "nested"}

LayoutColor(layout, rows, cols, row, col) ==
  CASE layout = "rows" -> row
    [] layout = "cols" -> col
    [] layout = "diagonal" -> (row + col) % rows
    [] layout = "nested" -> IF row > col THEN row ELSE col

BaseColoring(layout, rows, cols) ==
  [idx \in 0 .. (rows * cols - 1) |->
     LayoutColor(layout, rows, cols, idx \div cols, idx % cols)]

Colorings(rows, cols) ==
  LET bases == {BaseColoring(l, rows, cols) : l \in Layouts}
  IN IF rows # cols THEN bases
     ELSE bases \cup {[b EXCEPT ![cell] = color] :
                    b \in bases, cell \in 0 .. (rows * cols - 1), color \in Palette}

Boards ==
  UNION {{MakeGame(dim[1], dim[2], f) : f \in Colorings(dim[1], dim[2])} :
           dim \in (1 .. MaxDim) \X (1 .. MaxDim)}

\* Injective renamings of the colour identifiers.
Renamings == {"same", "shift", "apart"}

Rename(renaming, color) ==
  CASE renaming = "same" -> color
    [] renaming = "shift" -> color + 1
    [] renaming = "apart" -> 2 * color + MaxDim

RenameGame(renaming, g) ==
  MakeGame(g.rows, g.cols,
           [i \in DOMAIN g.idxToColor |-> Rename(renaming, g.idxToColor[i])])

-----------------------------------------------------------------------------
(* solve: the search state is created afresh. `old` is what the call before *)
(* left behind, which solve never reads.                                    *)

\* rowUsed kept in one array shared by all calls.
NewRowUsedShared(g, old) ==
  IF DOMAIN old = Rows(g) THEN old ELSE [row \in Rows(g) |-> FALSE]

\* const rowUsed = Array(game.rows).fill(false)
NewRowUsed(g, old) == [row \in Rows(g) |-> FALSE]

\* const colUsed = Array(game.cols).fill(false)
NewColUsed(g, old) == [col \in Cols(g) |-> FALSE]

\* const colorUsed = Object.fromEntries(game.colors.map((color) => [color, false]))
NewColorUsed(g, old) == [color \in g.colors |-> FALSE]

\* const adjacentToUsed = one 0 per cell index
NewAdjacentToUsed(g, old) == [idx \in Cells(g) |-> 0]

\* new Set(solution) with the cells of the last row left out.
solveResultShort(g, sol) ==
  {sol[i] : i \in {j \in DOMAIN sol : RowOf(g, sol[j]) < g.rows - 1}}

\* return new Set(solution)
solveResult(g, sol) == {sol[i] : i \in DOMAIN sol}

Init ==
  /\ game \in Boards
  /\ fwdCheck = TRUE
  /\ rowUsed = NewRowUsed(game, <<>>)
  /\ colUsed = NewColUsed(game, <<>>)
  /\ colorUsed = NewColorUsed(game, <<>>)
  /\ adjacentToUsed = NewAdjacentToUsed(game, <<>>)
  /\ solution = <<>>
  /\ stack = <<>>
  /\ pc = "call"
  /\ ret = FALSE
  /\ result = {}
  /\ earlier = <<>>
  /\ grid = [rows |-> <<>>, cols |-> <<>>, children |-> <<>>]
  /\ script = "content.js"
  /\ bpc = "idle"
  /\ child = 1
  /\ built = [rows |-> NaN, cols |-> NaN, colors |-> {}, idxToColor |-> <<>>]
  /\ thrown = "none"
  /\ wasmReady = FALSE
  /\ runs = <<>>

-----------------------------------------------------------------------------
(* solveBacktracking, one step at a time.                                   *)

Top == stack[Len(stack)]
Pop(s) == SubSeq(s, 1, Len(s) - 1)

\* The five objects solve hands to solveBacktracking.
SearchState == <<rowUsed, colUsed, colorUsed, adjacentToUsed, solution>>

\* The for-of loop stuck on the candidate it has just tried.
NextIndexStuck(i) == i

\* The for-of loop moves on to its next candidate.
NextIndex(i) == i + 1

\* The mark of the colour forgotten.
SetColorForgotten(kUsed, color, value) == kUsed

\* colorUsed[color] = value: an assignment to a missing key adds the key.
SetColor(kUsed, color, value) ==
  [k \in DOMAIN kUsed \cup {color} |-> IF k = color THEN value ELSE kUsed[k]]

\* The undo with solution.pop() forgotten.
PopSolutionForgotten(sol) == sol

\* solution.pop()
PopSolution(sol) == SubSeq(sol, 1, Len(sol) - 1)

\* adjacents.forEach((i) => { adjacentToUsed[i]++ })
IncrAdjacents(adj, adjacents) ==
  [i \in DOMAIN adj |-> IF i \in adjacents THEN adj[i] + 1 ELSE adj[i]]

\* The undo with the decrement of the counters forgotten.
DecrAdjacentsForgotten(adj, adjacents) == adj

\* adjacents.forEach((i) => { adjacentToUsed[i]-- })
DecrAdjacents(adj, adjacents) ==
  [i \in DOMAIN adj |-> IF i \in adjacents THEN adj[i] - 1 ELSE adj[i]]

\* Lines 57-59: the call finds the board solved and returns true.
ReturnSolved ==
  /\ pc = "call"
  /\ solved(rowUsed, colUsed, colorUsed)
  /\ pc' = "ret"
  /\ ret' = TRUE
  /\ UNCHANGED <<game, fwdCheck, rowUsed, colUsed, colorUsed, adjacentToUsed,
                 solution, stack, result, earlier>>
  /\ UNCHANGED <<buildVars, extVars>>

\* Line 61: the call computes its candidates and enters its for-loop.
EnterLoop ==
  /\ pc = "call"
  /\ ~solved(rowUsed, colUsed, colorUsed)
  /\ stack' = Append(stack,
        [cands |-> getCandidates(game, fwdCheck, rowUsed, colUsed, colorUsed,
                                 adjacentToUsed),
         i |-> 1,
         before |-> <<>>])
  /\ pc' = "loop"
  /\ UNCHANGED <<game, fwdCheck, rowUsed, colUsed, colorUsed, adjacentToUsed,
                 solution, ret, result, earlier>>
  /\ UNCHANGED <<buildVars, extVars>>

\* Lines 68-88: the next candidate is placed and solveBacktracking is called.
Place ==
  /\ pc = "loop"
  /\ Top.i <= Len(Top.cands)
  /\ LET row == Top.cands[Top.i][1]
         col == Top.cands[Top.i][2]
         idx == CellIdx(game, row, col)
     IN /\ rowUsed' = [rowUsed EXCEPT ![row] = TRUE]
        /\ colUsed' = [colUsed EXCEPT ![col] = TRUE]
        /\ colorUsed' = SetColor(colorUsed, game.idxToColor[idx], TRUE)
        /\ adjacentToUsed' = IncrAdjacents(adjacentToUsed, getAdjacents(game, row, col))
        /\ solution' = Append(solution, idx)
  /\ stack' = [stack EXCEPT ![Len(stack)].before = SearchState]
  /\ pc' = "call"
  /\ UNCHANGED <<game, fwdCheck, ret, result, earlier>>
  /\ UNCHANGED <<buildVars, extVars>>

\* Lines 89-91: the recursive call returned true, so does this one.
ReturnTrue ==
  /\ pc = "ret"
  /\ ret
  /\ stack # <<>>
  /\ stack' = Pop(stack)
  /\ UNCHANGED <<game, fwdCheck, rowUsed, colUsed, colorUsed, adjacentToUsed,
                 solution, pc, ret, result, earlier>>
  /\ UNCHANGED <<buildVars, extVars>>

\* Lines 93-100: the recursive call returned false; the placement is undone.
Backtrack ==
  /\ pc = "ret"
  /\ ~ret
  /\ stack # <<>>
  /\ LET row == Top.cands[Top.i][1]
         col == Top.cands[Top.i][2]
         idx == CellIdx(game, row, col)
     IN /\ rowUsed' = [rowUsed EXCEPT ![row] = FALSE]
        /\ colUsed' = [colUsed EXCEPT ![col] = FALSE]
        /\ colorUsed' = SetColor(colorUsed, game.idxToColor[idx], FALSE)
        /\ adjacentToUsed' = DecrAdjacents(adjacentToUsed, getAdjacents(game, row, col))
        /\ solution' = PopSolution(solution)
  /\ stack' = [stack EXCEPT ![Len(stack)].i = NextIndex(@)]
  /\ pc' = "loop"
  /\ UNCHANGED <<game, fwdCheck, ret, result, earlier>>
  /\ UNCHANGED <<buildVars, extVars>>

\* Line 103: the for-loop ran out of candidates; the call returns false.
ReturnFalse ==
  /\ pc = "loop"
  /\ Top.i > Len(Top.cands)
  /\ stack' = Pop(stack)
  /\ pc' = "ret"
  /\ ret' = FALSE
  /\ UNCHANGED <<game, fwdCheck, rowUsed, colUsed, colorUsed, adjacentToUsed,
                 solution, result, earlier>>
  /\ UNCHANGED <<buildVars, extVars>>

\* Line 46: the outermost call returned; solve returns the set of cells.
SolveReturn ==
  /\ pc = "ret"
  /\ stack = <<>>
  /\ result' = solveResult(game, solution)
  /\ pc' = "done"
  /\ UNCHANGED <<game, fwdCheck, rowUsed, colUsed, colorUsed, adjacentToUsed,
                 solution, stack, ret, earlier>>
  /\ UNCHANGED <<buildVars, extVars>>

\* solve is called a second time: on the same board or on a renaming of it,
\* with the forward check as it is or taken out.
SolveAgain ==
  /\ pc = "done"
  /\ earlier = <<>>
  /\ \E renaming \in Renamings, fwd \in BOOLEAN :
        /\ game' = RenameGame(renaming, game)
        /\ fwdCheck' = fwd
        /\ earlier' = <<[game |-> game, fwdCheck |-> fwdCheck, result |-> result,
                         renaming |-> renaming]>>
  /\ rowUsed' = NewRowUsed(game', rowUsed)
  /\ colUsed' = NewColUsed(game', colUsed)
  /\ colorUsed' = NewColorUsed(game', colorUsed)
  /\ adjacentToUsed' = NewAdjacentToUsed(game', adjacentToUsed)
  /\ solution' = <<>>
  /\ stack' = <<>>
  /\ pc' = "call"
  /\ ret' = FALSE
  /\ result' = {}
  /\ UNCHANGED <<buildVars, extVars>>

Next ==
  \/ ReturnSolved
  \/ EnterLoop
  \/ Place
  \/ ReturnTrue
  \/ Backtrack
  \/ ReturnFalse
  \/ SolveReturn
  \/ SolveAgain

Spec == Init /\ [][Next]_vars

\* One call of solve, from its first statement to its return.
NextSearch ==
  \/ ReturnSolved
  \/ EnterLoop
  \/ Place
  \/ ReturnTrue
  \/ Backtrack
  \/ ReturnFalse
  \/ SolveReturn

\* The steps of the search other than the entry into a for-loop.
LoopSteps ==
  \/ ReturnSolved
  \/ Place
  \/ ReturnTrue
  \/ Backtrack
  \/ ReturnFalse
  \/ SolveReturn

\* EnterLoop can be taken: a call has begun on a board that is not solved.
EnterLoopEnabled == pc = "call" /\ ~solved(rowUsed, colUsed, colorUsed)

\* Weak fairness of EnterLoop, with its enabling condition written out.
EnterLoopFair == []<>(~EnterLoopEnabled) \/ []<><<EnterLoop>>_vars

\* solve is synchronous: once called, it runs on without yielding until it
\* returns, so a step that can be taken is taken.
SpecLive ==
  Init /\ [][NextSearch]_vars /\ WF_vars(LoopSteps) /\ EnterLoopFair

-----------------------------------------------------------------------------
(* buildGame, in its two versions: the one of content.js, whose idxToColor  *)
(* starts as {}, and the one of the injected script (unnamed/part_000),     *)
(* whose idxToColor starts as new Array(rows * cols).fill(0). A string is a *)
(* sequence of characters; a class name is whether it starts with           *)
(* "cell-color" and the text after its first eleven characters.             *)

\* The digits of radix 16 in both cases; those of radix 10 are the first ten.
DigitChars ==
  <<"0", "1", "2", "3", "4", "5", "6", "7", "8", "9",
    "a", "b", "c", "d", "e", "f">>
UpperDigitChars ==
  <<"0", "1", "2", "3", "4", "5", "6", "7", "8", "9",
    "A", "B", "C", "D", "E", "F">>
IsDigit(ch, radix) ==
  \E i \in 1 .. radix : DigitChars[i] = ch \/ UpperDigitChars[i] = ch
DigitValue(ch) ==
  (CHOOSE i \in DOMAIN DigitChars : DigitChars[i] = ch \/ UpperDigitChars[i] = ch)
    - 1

\* The white space and line terminators parseInt skips that a string of this
\* notation can hold: space, tab, line feed, carriage return, form feed,
\* vertical tab (U+000B), no-break space (U+00A0), U+FEFF and U+1680. The
\* code skips U+2000 to U+200A, U+2028, U+2029, U+202F, U+205F and U+3000 as
\* well.
WhiteSpace ==
  {" ", "\t", "\n", "\r", "\f", "", " ", "﻿", " "}

RECURSIVE SkipSpaces(_)
SkipSpaces(str) ==
  IF str # <<>> /\ Head(str) \in WhiteSpace THEN SkipSpaces(Tail(str)) ELSE str

RECURSIVE LeadingDigits(_, _, _)
\* The value of the digits of the radix that str starts with, after acc.
LeadingDigits(str, radix, acc) ==
  IF str = <<>> \/ ~IsDigit(Head(str), radix) THEN acc
  ELSE LeadingDigits(Tail(str), radix, radix * acc + DigitValue(Head(str)))

\* parseInt(str), no radix given: white space, a sign, then "0x" or "0X" for
\* radix 16 (radix 10 without it), then the digits up to the first other
\* character; NaN when there is no digit. The value is the exact integer:
\* the code's numbers are doubles, which round a value above 2^53.
parseInt(str) ==
  LET t == SkipSpaces(str)
      signed == t # <<>> /\ Head(t) \in {"-", "+"}
      unsigned == IF signed THEN Tail(t) ELSE t
      hex == Len(unsigned) >= 2 /\ unsigned[1] = "0" /\ unsigned[2] \in {"x", "X"}
      radix == IF hex THEN 16 ELSE 10
      digits == IF hex THEN SubSeq(unsigned, 3, Len(unsigned)) ELSE unsigned
  IN IF digits = <<>> \/ ~IsDigit(Head(digits), radix) THEN NaN
     ELSE IF signed /\ Head(t) = "-"
            THEN Num(0 - LeadingDigits(digits, radix, 0))
            ELSE Num(LeadingDigits(digits, radix, 0))

\* rows * cols
Times(a, b) == IF a.t = "num" /\ b.t = "num" THEN Num(a.v * b.v) ELSE NaN

\* new Array(n) throws a RangeError unless n is an integer from 0 up.
ValidArrayLength(n) == n.t = "num" /\ n.v >= 0

\* [...child.classList].find((x) => x.startsWith("cell-color")): the position
\* of the first such class, 0 when find returns undefined.
FindColorClass(classes) ==
  IF \E i \in DOMAIN classes : classes[i].starts
    THEN CHOOSE i \in DOMAIN classes :
           classes[i].starts /\ \A j \in 1 .. (i - 1) : ~classes[j].starts
    ELSE 0

\* idxToColor[idx] = color
SetIdx(idxToColor, idx, color) ==
  [k \in DOMAIN idxToColor \cup {idx} |-> IF k = idx THEN color ELSE idxToColor[k]]

\* The strings the grids hold as --rows, --cols and data-cell-idx.
NumberTokens ==
  {<<>>, <<"0">>, <<"1">>, <<"2">>, <<"-", "1">>, <<"a">>, <<" ", "2", "a">>,
   <<"\t", "2">>, <<"0", "x", "2">>}

IdxTokens == {<<"0">>, <<"1">>, <<"3">>, <<>>, <<"\n", "0", "X", "3">>}

ColorClass(tail) == [starts |-> TRUE, tail |-> tail]
OtherClass == [starts |-> FALSE, tail |-> <<>>]

ClassLists ==
  {<<>>, <<OtherClass>>, <<OtherClass, ColorClass(<<"0">>)>>,
   <<ColorClass(<<"1">>), ColorClass(<<"0">>)>>, <<ColorClass(<<"a">>)>>,
   <<ColorClass(<<>>)>>}

RECURSIVE SeqsUpTo(_, _)
\* The sequences of at most n elements of T.
SeqsUpTo(T, n) ==
  IF n = 0 THEN {<<>>}
  ELSE LET shorter == SeqsUpTo(T, n - 1)
       IN shorter \cup {Append(q, x) : q \in shorter, x \in T}

Grids ==
  [rows : NumberTokens, cols : NumberTokens,
   children : SeqsUpTo([cellIdx : IdxTokens, classes : ClassLists], MaxChildren)]

InitBuild ==
  /\ grid \in Grids
  /\ script \in {"content.js", "injected"}
  /\ bpc = "start"
  /\ child = 1
  /\ built = [rows |-> NaN, cols |-> NaN, colors |-> {}, idxToColor |-> <<>>]
  /\ thrown = "none"
  /\ wasmReady = FALSE
  /\ runs = <<>>
  /\ game = MakeGame(1, 1, [i \in {0} |-> 0])
  /\ fwdCheck = TRUE
  /\ rowUsed = NewRowUsed(game, <<>>)
  /\ colUsed = NewColUsed(game, <<>>)
  /\ colorUsed = NewColorUsed(game, <<>>)
  /\ adjacentToUsed = NewAdjacentToUsed(game, <<>>)
  /\ solution = <<>>
  /\ stack = <<>>
  /\ pc = "idle"
  /\ ret = FALSE
  /\ result = {}
  /\ earlier = <<>>

\* Lines 2-6: the dimensions are parsed and colors, idxToColor created.
ParseDims ==
  /\ bpc = "start"
  /\ LET rows == parseInt(grid.rows)
         cols == parseInt(grid.cols)
     IN /\ script = "injected" => ValidArrayLength(Times(rows, cols))
        /\ built' = [rows |-> rows, cols |-> cols, colors |-> {},
                     idxToColor |->
                       IF script = "injected"
                         THEN [k \in {Num(i) : i \in 0 .. (rows.v * cols.v - 1)}
                                 |-> Num(0)]
                         ELSE <<>>]
  /\ bpc' = "loop"
  /\ UNCHANGED <<grid, script, child, thrown>>
  /\ UNCHANGED <<solveVars, extVars>>

\* part_000 line 6: new Array(rows * cols) throws.
ArrayThrows ==
  /\ bpc = "start"
  /\ script = "injected"
  /\ ~ValidArrayLength(Times(parseInt(grid.rows), parseInt(grid.cols)))
  /\ thrown' = "RangeError"
  /\ bpc' = "thrown"
  /\ UNCHANGED <<grid, script, child, built>>
  /\ UNCHANGED <<solveVars, extVars>>

\* Lines 8-19: one child is read and recorded.
ReadChild ==
  /\ bpc = "loop"
  /\ child <= Len(grid.children)
  /\ LET cell == grid.children[child]
         found == FindColorClass(cell.classes)
         idx == parseInt(cell.cellIdx)
     IN /\ found # 0
        /\ LET color == parseInt(cell.classes[found].tail)
           IN built' = [built EXCEPT
                          !.colors = @ \cup {color},
                          !.idxToColor = SetIdx(@, idx, color)]
  /\ child' = child + 1
  /\ UNCHANGED <<grid, script, bpc, thrown>>
  /\ UNCHANGED <<solveVars, extVars>>

\* Lines 12-14: find returns undefined and .slice on it throws.
ChildThrows ==
  /\ bpc = "loop"
  /\ child <= Len(grid.children)
  /\ FindColorClass(grid.children[child].classes) = 0
  /\ thrown' = "TypeError"
  /\ bpc' = "thrown"
  /\ UNCHANGED <<grid, script, child, built>>
  /\ UNCHANGED <<solveVars, extVars>>

\* Line 21: return { rows, cols, colors: [...colors], idxToColor }
ReturnGame ==
  /\ bpc = "loop"
  /\ child > Len(grid.children)
  /\ bpc' = "returned"
  /\ UNCHANGED <<grid, script, child, built, thrown>>
  /\ UNCHANGED <<solveVars, extVars>>

NextBuild ==
  \/ ParseDims
  \/ ArrayThrows
  \/ ReadChild
  \/ ChildThrows
  \/ ReturnGame

SpecBuild == InitBuild /\ [][NextBuild]_vars

-----------------------------------------------------------------------------
(* What a solution is, and the brute-force enumeration of all of them.      *)

Abs(n) == IF n < 0 THEN -n ELSE n

DiagonallyAdjacent(g, a, b) ==
  /\ Abs(RowOf(g, a) - RowOf(g, b)) = 1
  /\ Abs(ColOf(g, a) - ColOf(g, b)) = 1

\* S holds one cell of every row, of every column and of every colour region
\* of the board, and no two of its cells touch diagonally.
ValidPlacement(g, S) ==
  /\ S \subseteq Cells(g)
  /\ Cardinality(S) = g.rows
  /\ \A row \in Rows(g) : Cardinality({c \in S : RowOf(g, c) = row}) = 1
  /\ \A col \in Cols(g) : Cardinality({c \in S : ColOf(g, c) = col}) = 1
  /\ \A color \in g.colors : Cardinality({c \in S : g.idxToColor[c] = color}) = 1
  /\ \A c \in S : g.idxToColor[c] \in g.colors
  /\ \A a \in S, b \in S : ~DiagonallyAdjacent(g, a, b)

RECURSIVE PermsOf(_)
\* The sequences that list every element of T exactly once.
PermsOf(T) ==
  IF T = {} THEN {<<>>}
  ELSE UNION {{<<x>> \o p : p \in PermsOf(T \ {x})} : x \in T}

\* Brute force: every way to put one marker in each row, each in a column of
\* its own with every column taken, kept when it is a valid placement.
ValidPlacements(g) ==
  {S \in {{CellIdx(g, i - 1, p[i]) : i \in DOMAIN p} :
            p \in {q \in PermsOf(Cols(g)) : Len(q) = g.rows}} :
     ValidPlacement(g, S)}

Found(S) == S # {}

-----------------------------------------------------------------------------
(* The claims.                                                              *)

\* C1: every non-empty set returned by solve has exactly `rows` cells, one in
\* each row, one in each column, one in each colour region of the board, and
\* no two of them diagonally adjacent.
C1_ReturnedSolutionValid ==
  (pc = "done" /\ fwdCheck /\ result # {}) => ValidPlacement(game, result)

\* A 4 x 4 board solved on a colouring that is not the row stripes.
C1_Witness ==
  /\ pc = "done" /\ fwdCheck /\ Cardinality(result) = 4
  /\ \E c \in Cells(game) : game.idxToColor[c] # RowOf(game, c)

\* C2: when solve reports no solution, the brute-force enumeration finds no
\* valid placement on that board either.
C2_FailureIsSound ==
  (pc = "done" /\ fwdCheck /\ result = {}) => ValidPlacements(game) = {}

\* A square board of side 4 on which the search was exhausted.
C2_Witness ==
  pc = "done" /\ fwdCheck /\ result = {} /\ game.rows = 4 /\ game.cols = 4

\* C3: solve returns `rows` cells when the search succeeded and the empty set
\* when it was exhausted, never a set of a size in between.
C3_AllOrNothing ==
  (pc = "done" /\ fwdCheck) =>
     /\ Cardinality(result) \in {0, game.rows}
     /\ ret => Cardinality(result) = game.rows
     /\ ~ret => result = {}

\* A search that placed markers, undid them all and reported no solution.
C3_Witness ==
  /\ pc = "done" /\ fwdCheck /\ ~ret /\ result = {}
  /\ game.rows = 4 /\ game.cols = 4 /\ Cardinality(game.colors) = 4

\* C4: on the same board, the search without the forward check finds a
\* solution exactly when the search with it does.
C4_ForwardCheckKeepsOutcome ==
  (pc = "done" /\ earlier # <<>> /\ game = earlier[1].game
     /\ ~fwdCheck /\ earlier[1].fwdCheck)
    => (Found(result) <=> Found(earlier[1].result))

\* Both searches ran on a 4 x 4 board and both found a solution.
C4_Witness ==
  /\ pc = "done" /\ earlier # <<>> /\ game = earlier[1].game
  /\ ~fwdCheck /\ earlier[1].fwdCheck
  /\ Found(result) /\ Found(earlier[1].result) /\ game.rows = 4

\* C5: a second call of solve on the same board starts from a search state
\* that shows nothing of the first call, and ends as the first did: both
\* return a valid solution or both report no solution.
C5_SecondCallSameOutcome ==
  (earlier # <<>> /\ game = earlier[1].game /\ fwdCheck /\ earlier[1].fwdCheck)
    => /\ (pc = "call" /\ stack = <<>>) =>
            /\ \A r \in DOMAIN rowUsed : ~rowUsed[r]
            /\ \A c \in DOMAIN colUsed : ~colUsed[c]
            /\ \A k \in DOMAIN colorUsed : ~colorUsed[k]
            /\ \A i \in DOMAIN adjacentToUsed : adjacentToUsed[i] = 0
            /\ solution = <<>>
       /\ pc = "done" =>
            /\ Found(result) <=> Found(earlier[1].result)
            /\ Found(result) =>
                 /\ ValidPlacement(game, result)
                 /\ ValidPlacement(game, earlier[1].result)

\* The second call on a board the first call solved has returned.
C5_Witness ==
  /\ pc = "done" /\ earlier # <<>> /\ game = earlier[1].game
  /\ fwdCheck /\ earlier[1].fwdCheck
  /\ Found(earlier[1].result) /\ game.rows = 4

\* C6: solve on a board whose colour identifiers were renamed injectively
\* (also to identifiers outside 0..k-1) finds a solution exactly when it does
\* on the original board, and what it returns is valid for the renamed board.
C6_ColoursOpaque ==
  (pc = "done" /\ earlier # <<>> /\ fwdCheck /\ earlier[1].fwdCheck
     /\ game = RenameGame(earlier[1].renaming, earlier[1].game))
    => /\ Found(result) <=> Found(earlier[1].result)
       /\ Found(result) => ValidPlacement(game, result)

\* A solved board was renamed to identifiers that are not 0..k-1 and solved.
C6_Witness ==
  /\ pc = "done" /\ earlier # <<>> /\ fwdCheck /\ earlier[1].fwdCheck
  /\ earlier[1].renaming # "same"
  /\ game.colors # 0 .. (Cardinality(game.colors) - 1)
  /\ Found(earlier[1].result) /\ Found(result)

\* C7: on a board with exactly one valid placement, solve returns that
\* placement.
C7_UniqueSolutionReturned ==
  (pc = "done" /\ fwdCheck /\ Cardinality(ValidPlacements(game)) = 1)
    => result \in ValidPlacements(game)

\* A 4 x 4 board with four regions and a single valid placement was solved.
C7_Witness ==
  /\ pc = "done" /\ fwdCheck /\ game.rows = 4 /\ game.cols = 4
  /\ Cardinality(game.colors) = 4
  /\ Cardinality(ValidPlacements(game)) = 1
  /\ Cardinality(result) = 4

\* C8: on the 1 x 1 board, whose one region holds cell 0, solve returns {0}.
C8_TrivialBoard ==
  (pc = "done" /\ fwdCheck /\ game.rows = 1 /\ game.cols = 1) => result = {0}

\* The 1 x 1 board with colour 0 was solved.
C8_Witness ==
  /\ pc = "done" /\ fwdCheck /\ earlier = <<>>
  /\ game = MakeGame(1, 1, [i \in {0} |-> 0])
  /\ result = {0}

\* The 2 x 2 board where cells 0 and 3 share a region and cells 1 and 2 the other.
Unsolvable2x2 == MakeGame(2, 2, [i \in 0 .. 3 |-> IF i \in {0, 3} THEN 0 ELSE 1])

\* C9: on the 2 x 2 board whose two regions are its two diagonals, solve
\* reports no solution.
C9_Unsolvable2x2 ==
  (pc = "done" /\ fwdCheck /\ game = Unsolvable2x2) => result = {}

\* solve has returned on that board.
C9_Witness ==
  pc = "done" /\ fwdCheck /\ earlier = <<>> /\ game = Unsolvable2x2 /\ ~ret

-----------------------------------------------------------------------------
(* Board construction.                                                      *)

\* The dimensions are not both positive integers.
BadDimensions(g) ==
  LET rows == parseInt(g.rows)
      cols == parseInt(g.cols)
  IN rows.t # "num" \/ cols.t # "num" \/ rows.v <= 0 \/ cols.v <= 0

\* Some cell of [0, rows*cols) is given no colour by any child.
MissingCell(g) ==
  /\ ~BadDimensions(g)
  /\ \E i \in 0 .. (parseInt(g.rows).v * parseInt(g.cols).v - 1) :
        \A c \in DOMAIN g.children : parseInt(g.children[c].cellIdx) # Num(i)

\* Some child has no colour class, or one whose colour is not a number.
MalformedColor(g) ==
  \E c \in DOMAIN g.children :
     LET found == FindColorClass(g.children[c].classes)
     IN found = 0 \/ parseInt(g.children[c].classes[found].tail) = NaN

InvalidInput(g) == BadDimensions(g) \/ MissingCell(g) \/ MalformedColor(g)

\* C10: on a raw input with non-positive or unparsable dimensions, a cell
\* without a colour or a malformed colour token, buildGame fails and returns
\* no board (any exception is counted as the failure).
C10_InvalidInputRejected ==
  InvalidInput(grid) => bpc # "returned"

-----------------------------------------------------------------------------
(* The search nodes.                                                        *)

\* The cells a marker may still be put on, read off the search state: row
\* unused, column unused, colour region unused, adjacency counter 0.
EligibleCells ==
  {c \in Cells(game) :
     /\ ~rowUsed[RowOf(game, c)]
     /\ ~colUsed[ColOf(game, c)]
     /\ ~ColorIsUsed(colorUsed, game.idxToColor[c])
     /\ adjacentToUsed[c] = 0}

\* Some unused row, unused column or unused colour region has no eligible cell.
DeadEnd ==
  \/ \E row \in Rows(game) :
        ~rowUsed[row] /\ \A c \in EligibleCells : RowOf(game, c) # row
  \/ \E col \in Cols(game) :
        ~colUsed[col] /\ \A c \in EligibleCells : ColOf(game, c) # col
  \/ \E color \in game.colors :
        ~ColorIsUsed(colorUsed, color)
          /\ \A c \in EligibleCells : game.idxToColor[c] # color

\* getCandidates has just returned to a node that is not solved; nothing has
\* been placed since.
AtNode == pc = "loop" /\ fwdCheck /\ Top.i = 1

\* C11: at a node that is not solved, if some unused row, unused column or
\* unused colour region has no eligible cell, getCandidates returns the empty
\* list, so that the node returns failure without placing or recursing,
\* whatever the colour identifiers of the board are.
C11_DeadEndPruned ==
  (AtNode /\ DeadEnd) => Top.cands = <<>>

\* A call of solveBacktracking begins with as many markers placed as the
\* board has rows.
ReachesDepthRows == pc = "call" /\ Len(solution) = game.rows

\* The next step is the return of true from that call, nothing placed.
SucceedsAtOnce == pc' = "ret" /\ ret' /\ solution' = solution

\* Once a call has returned true, solution is left as it is up to the return
\* of solve, which returns its cells.
ReturnedAsIs ==
  (pc = "ret" /\ ret) =>
     /\ solution' = solution
     /\ pc' = "done" => result' = {solution[i] : i \in DOMAIN solution}

\* The board is square and has as many colour regions as rows.
ProperBoard ==
  game.rows = game.cols /\ Cardinality(game.colors) = game.rows

\* C12 as stated: a node at depth rows succeeds immediately and its
\* partialSolution is the solution returned, on every board.
C12_DepthRowsSucceedsAnyBoard ==
  [][(ReachesDepthRows => SucceedsAtOnce) /\ ReturnedAsIs]_vars

\* C12: on a board with rows = cols = number of colour regions, a node at
\* depth rows succeeds immediately and its partialSolution is the solution
\* returned.
C12_DepthRowsSucceeds ==
  [][((ReachesDepthRows /\ ProperBoard) => SucceedsAtOnce) /\ ReturnedAsIs]_vars

\* A call at depth rows >= 2 on such a board has just returned true.
C12_Witness ==
  /\ pc = "ret" /\ ret /\ ProperBoard
  /\ game.rows >= 2
  /\ Len(solution) = game.rows
  /\ Len(stack) = game.rows

\* The number of markers of partialSolution diagonally adjacent to cell c.
Pressure(c) ==
  Cardinality({i \in DOMAIN solution : DiagonallyAdjacent(game, solution[i], c)})

\* C13: at entry to and at return from every call of solveBacktracking, each
\* counter adjacentToUsed[c] is the number of placed markers diagonally
\* adjacent to c; no counter is ever negative.
C13_CountersAreDerived ==
  /\ pc \in {"call", "ret"} =>
       \A c \in Cells(game) : adjacentToUsed[c] = Pressure(c)
  /\ \A c \in DOMAIN adjacentToUsed : adjacentToUsed[c] >= 0

\* A call has returned false after an undo, with a cell still under the
\* pressure of two markers.
C13_Witness ==
  /\ pc = "ret" /\ ~ret
  /\ \E c \in Cells(game) : adjacentToUsed[c] = 2
  /\ \E c \in Cells(game) : adjacentToUsed[c] = 0 /\ Pressure(c) = 0

\* C14: when a recursive call has returned false, the undo leaves rowUsed,
\* colUsed, colorUsed, adjacentToUsed and partialSolution as they were just
\* before the placement tried; when it has returned true, nothing of them is
\* changed on the way up.
C14_PlaceUndoSymmetric ==
  [][/\ (pc = "ret" /\ ~ret /\ stack # <<>>) => SearchState' = Top.before
     /\ (pc = "ret" /\ ret) => SearchState' = SearchState]_vars

\* A placement made below an earlier marker has just been undone, and the
\* search state is the one recorded before that placement.
C14_Witness ==
  /\ pc = "loop"
  /\ Top.i >= 2
  /\ Len(solution) >= 1
  /\ Top.before = SearchState

\* The cells of a candidate list, as indices.
CellsOf(cands) ==
  {CellIdx(game, cands[i][1], cands[i][2]) : i \in DOMAIN cands}

\* cands holds the eligible cells and nothing else, each once.
ListsEligibleCells(cands) ==
  /\ CellsOf(cands) = EligibleCells
  /\ Len(cands) = Cardinality(EligibleCells)

\* C15: at a node where the forward check did not prune (there is no dead
\* end, or the list came back non-empty, or lines 165-177 are taken out),
\* getCandidates returned precisely the cells with row, column and colour
\* region unused and counter 0, each once; and a cell about to be placed is
\* such a cell.
C15_CandidatesAreEligibleCells ==
  /\ (pc = "loop" /\ Top.i = 1 /\ (~fwdCheck \/ ~DeadEnd \/ Top.cands # <<>>))
        => ListsEligibleCells(Top.cands)
  /\ (pc = "loop" /\ Top.i <= Len(Top.cands))
        => CellIdx(game, Top.cands[Top.i][1], Top.cands[Top.i][2]) \in EligibleCells

\* A node below two markers got a list of at least two candidates while some
\* cell of an unused row, column and colour is ruled out by its counter alone.
C15_Witness ==
  /\ pc = "loop" /\ Top.i = 1 /\ fwdCheck
  /\ Len(solution) >= 2
  /\ Len(Top.cands) >= 2
  /\ \E c \in Cells(game) \ EligibleCells :
        /\ ~rowUsed[RowOf(game, c)]
        /\ ~colUsed[ColOf(game, c)]
        /\ ~ColorIsUsed(colorUsed, game.idxToColor[c])

\* The smallest of the numbers of eligible cells in the row, in the column
\* and in the colour region of cell c.
Constrainedness(c) ==
  LET rowSpots == Cardinality({e \in EligibleCells : RowOf(game, e) = RowOf(game, c)})
      colSpots == Cardinality({e \in EligibleCells : ColOf(game, e) = ColOf(game, c)})
      colorSpots == Cardinality({e \in EligibleCells :
                                   game.idxToColor[e] = game.idxToColor[c]})
      rowCol == IF rowSpots <= colSpots THEN rowSpots ELSE colSpots
  IN IF rowCol <= colorSpots THEN rowCol ELSE colorSpots

\* C16: in the list getCandidates returns at a node, every candidate is at
\* most as unconstrained as the one after it: the minimum of the numbers of
\* eligible cells in its row, column and colour region does not decrease
\* along the list.
C16_AscendingConstrainedness ==
  AtNode =>
    \A i \in 1 .. (Len(Top.cands) - 1) :
       Constrainedness(CellIdx(game, Top.cands[i][1], Top.cands[i][2]))
         <= Constrainedness(CellIdx(game, Top.cands[i + 1][1], Top.cands[i + 1][2]))

\* The search has not succeeded yet: a call begins, runs its loop, or has
\* returned false.
Searching == pc \in {"call", "loop"} \/ (pc = "ret" /\ ~ret)

\* The recursion depth of the node being searched: the number of enclosing
\* calls, each of which has a placement under trial. The call on top of the
\* stack in its loop has none; a call that begins or has just returned is
\* below all of them.
Depth == IF pc = "loop" THEN Len(stack) - 1 ELSE Len(stack)

\* The cells of partialSolution.
Placed == {solution[i] : i \in DOMAIN solution}

\* The used rows, columns and colours are those of the cells of
\* partialSolution, one of each for every cell, and there are at most rows
\* cells.
UsedMarksMatch ==
  /\ Cardinality({row \in DOMAIN rowUsed : rowUsed[row]}) = Len(solution)
  /\ Cardinality({col \in DOMAIN colUsed : colUsed[col]}) = Len(solution)
  /\ Cardinality({color \in DOMAIN colorUsed : colorUsed[color]}) = Len(solution)
  /\ {row \in DOMAIN rowUsed : rowUsed[row]} = {RowOf(game, c) : c \in Placed}
  /\ {col \in DOMAIN colUsed : colUsed[col]} = {ColOf(game, c) : c \in Placed}
  /\ {color \in DOMAIN colorUsed : colorUsed[color]}
        = {game.idxToColor[c] : c \in Placed}
  /\ Len(solution) <= game.rows

\* The search is under way: solve has called solveBacktracking and the root
\* call has not handed its result back yet.
InSearch == pc \in {"call", "loop", "ret"}

\* C17, as claimed: in every state of the search the length of
\* partialSolution is the recursion depth, and the number of used rows, of
\* used columns and of used colour regions, which are exactly the rows,
\* columns and colours of the cells of partialSolution; the depth is at most
\* rows.
C17_DepthAndUsedMarksAlways ==
  InSearch => /\ Len(solution) = Depth
              /\ UsedMarksMatch
              /\ Depth <= game.rows

\* C17, amended: the length of partialSolution is the recursion depth as
\* long as no call has returned true; once a call has returned true,
\* partialSolution keeps its rows cells while the enclosing calls return, so
\* its length is rows and the depth is below it. In every state the length
\* is the number of used rows, of used columns and of used colour regions,
\* which are exactly the rows, columns and colours of the cells of
\* partialSolution, and neither the length nor the depth exceeds rows.
C17_DepthAndUsedMarks ==
  /\ Searching => Len(solution) = Depth
  /\ (pc = "ret" /\ ret) => Len(solution) = game.rows /\ Depth <= Len(solution)
  /\ UsedMarksMatch
  /\ InSearch => Depth <= game.rows

\* A call two markers deep is in its loop after an undo.
C17_Witness ==
  /\ pc = "loop"
  /\ Top.i >= 2
  /\ Len(solution) >= 2
  /\ Depth = Len(solution)

\* C18: every call of solve on a board with positive dimensions returns:
\* the search comes back to the root with success or failure after finitely
\* many placements and undos.
C18_SolveTerminates == <>(pc = "done")

\* solve has returned the empty set on a board of three rows or more, after
\* its search ran out of candidates at the root.
C18_Witness ==
  /\ pc = "done" /\ ~ret
  /\ game.rows >= 3 /\ game.cols >= 3
  /\ result = {}

-----------------------------------------------------------------------------
(* The packaged extension. The background script (unnamed/part_001) starts  *)
(* init() of the WASM solver without waiting for it, answers every "solve"  *)
(* message by calling solve and sendResponse in the same turn, and injects  *)
(* the content script at every click on the toolbar button. The content     *)
(* script (unnamed/part_000) builds the board, sends it, and after the      *)
(* answer clicks twice on every child whose index the answer holds. The     *)
(* WASM solver itself is outside the sources: a call of it either throws or *)
(* returns the JSON text of some array of indices.                          *)

\* simulateClick(element): the events it dispatches on element, in order.
simulateClick == <<"mousedown", "mouseup">>

\* new Set(array)
NewSet(array) == {array[i] : i \in DOMAIN array}

\* solution.has(idx): a number found in the set; NaN is in no parsed array.
SetHas(set, idx) == idx.t = "num" /\ idx.v \in set

\* The loop body with one simulateClick only.
ChildEventsSingle(set, idx) ==
  IF SetHas(set, idx) THEN simulateClick ELSE <<>>

\* Lines 49-56: what one pass of the loop dispatches on its child.
ChildEvents(set, idx) ==
  IF SetHas(set, idx) THEN simulateClick \o simulateClick ELSE <<>>

\* Lines 46-57: JSON.parse, new Set, and the loop over grid.children; array
\* is what JSON.parse yields. The events dispatched, child by child.
ClickLoop(g, array) ==
  [c \in DOMAIN g.children |->
     ChildEvents(NewSet(array), parseInt(g.children[c].cellIdx))]

NoEvents(g) == [c \in DOMAIN g.children |-> <<>>]

\* buildGame of the content script throws on grid g: the RangeError of
\* new Array(rows * cols), or the TypeError on a child without colour class.
buildGameThrows(g) ==
  \/ ~ValidArrayLength(Times(parseInt(g.rows), parseInt(g.cols)))
  \/ \E c \in DOMAIN g.children : FindColorClass(g.children[c].classes) = 0

\* The pages the content script is injected into.
Pages ==
  [rows : {<<"1">>, <<"a">>}, cols : {<<"2">>},
   children : SeqsUpTo([cellIdx : {<<"0">>, <<"3">>, <<>>, <<"\t", "0", "x", "3">>},
                        classes : {<<>>, <<ColorClass(<<"0">>)>>}],
                       MaxChildren)]

\* What a call solve(message.gameJson) of the WASM solver can do: throw, or
\* return the JSON text of an array of cell indices.
WasmOutcomes ==
  {[throws |-> TRUE, array |-> <<>>]}
    \cup {[throws |-> FALSE, array |-> a] : a \in SeqsUpTo({0, 3}, MaxAnswer)}

InitExt ==
  /\ grid \in Pages
  /\ script = "injected"
  /\ bpc = "idle"
  /\ child = 1
  /\ built = [rows |-> NaN, cols |-> NaN, colors |-> {}, idxToColor |-> <<>>]
  /\ thrown = "none"
  /\ wasmReady = FALSE
  /\ runs = <<>>
  /\ game = MakeGame(1, 1, [i \in {0} |-> 0])
  /\ fwdCheck = TRUE
  /\ rowUsed = NewRowUsed(game, <<>>)
  /\ colUsed = NewColUsed(game, <<>>)
  /\ colorUsed = NewColorUsed(game, <<>>)
  /\ adjacentToUsed = NewAdjacentToUsed(game, <<>>)
  /\ solution = <<>>
  /\ stack = <<>>
  /\ pc = "idle"
  /\ ret = FALSE
  /\ result = {}
  /\ earlier = <<>>

\* part_001 lines 3-5: the promise of init() resolves.
InitResolves ==
  /\ ~wasmReady
  /\ wasmReady' = TRUE
  /\ UNCHANGED <<runs, solveVars, buildVars>>

\* part_001 lines 16-21: a click on the toolbar button injects the content
\* script into the tab.
Clicked ==
  /\ Len(runs) < MaxClicks
  /\ runs' = Append(runs, [phase |-> "injected", init |-> "unasked",
                           array |-> <<>>, events |-> NoEvents(grid)])
  /\ UNCHANGED <<wasmReady, solveVars, buildVars>>

\* part_000 lines 60-63 and 37-44: the injected script runs up to its await:
\* it builds the board and sends the "solve" message, unless buildGame throws.
SolveGameStart(r) ==
  /\ runs[r].phase = "injected"
  /\ runs' = [runs EXCEPT ![r].phase =
                IF buildGameThrows(grid) THEN "threw" ELSE "sent"]
  /\ UNCHANGED <<wasmReady, solveVars, buildVars>>

\* part_001 lines 7-14: the listener gets the message of run r, calls solve
\* and, when solve returned, sendResponse. Nothing in it looks at init.
OnMessage(r) ==
  /\ runs[r].phase = "sent"
  /\ \E outcome \in WasmOutcomes :
        runs' = [runs EXCEPT
                   ![r].init = IF wasmReady THEN "resolved" ELSE "pending",
                   ![r].phase = IF outcome.throws THEN "unanswered" ELSE "answered",
                   ![r].array = outcome.array]
  /\ UNCHANGED <<wasmReady, solveVars, buildVars>>

\* part_000 lines 46-57: sendMessage has settled and solveGame goes on, in one
\* turn: with a response it clicks; without one JSON.parse throws.
SolveGameResume(r) ==
  /\ runs[r].phase \in {"answered", "unanswered"}
  /\ runs' = [runs EXCEPT
                ![r].phase = IF runs[r].phase = "answered" THEN "clicked" ELSE "threw",
                ![r].events = IF runs[r].phase = "answered"
                                THEN ClickLoop(grid, runs[r].array)
                                ELSE @]
  /\ UNCHANGED <<wasmReady, solveVars, buildVars>>

NextExt ==
  \/ InitResolves
  \/ Clicked
  \/ \E r \in DOMAIN runs : SolveGameStart(r)
  \/ \E r \in DOMAIN runs : OnMessage(r)
  \/ \E r \in DOMAIN runs : SolveGameResume(r)

SpecExt == InitExt /\ [][NextExt]_vars

\* C19: the listener never calls the WASM solve while init() is pending,
\* however the resolution of init, the clicks and the "solve" messages
\* interleave.
C19_SolveOnlyAfterInit ==
  \A r \in DOMAIN runs : runs[r].init # "pending"

\* A child of the page has got events from run r.
HasEvents(r) == \E c \in DOMAIN runs[r].events : runs[r].events[c] # <<>>

\* C20: a run of the content script dispatches events only once the response
\* to its "solve" message has been received; then every child whose index is
\* in the returned solution has got exactly mousedown, mouseup, mousedown,
\* mouseup, and every other child nothing.
C20_ClicksFollowResponse ==
  \A r \in DOMAIN runs :
     /\ HasEvents(r) => runs[r].phase = "clicked"
     /\ runs[r].phase = "clicked" =>
          \A c \in DOMAIN grid.children :
             runs[r].events[c] =
               IF \E i \in DOMAIN runs[r].array :
                     parseInt(grid.children[c].cellIdx) = Num(runs[r].array[i])
                 THEN <<"mousedown", "mouseup", "mousedown", "mouseup">>
                 ELSE <<>>

\* A run has clicked on one child of two and left the other alone.
C20_Witness ==
  \E r \in DOMAIN runs :
     /\ runs[r].phase = "clicked"
     /\ \E c \in DOMAIN grid.children : Len(runs[r].events[c]) = 4
     /\ \E c \in DOMAIN grid.children : runs[r].events[c] = <<>>

=============================================================================
